---- MODULE Spec2Model ----
(***************************************************************************)
(* A model of the tree-walking interpreter of src/main.rs (eval, main),    *)
(* its AST (src/ast.rs) and its native Fibonacci routines (src/fib.rs).    *)
(*                                                                         *)
(* eval is a recursive function; it is modelled by the recursive operator  *)
(* eval, which returns what one call of the Rust function leaves behind:   *)
(* its Result, the caller's context as mutated through `&mut Context`,     *)
(* and the lines written to standard output.                               *)
(***************************************************************************)
EXTENDS Integers, Sequences, FiniteSets, TLC

VARIABLES program, term, context, stdout, result, pc, nth, iter_res, matrix_res

vars == <<program, term, context, stdout, result, pc, nth, iter_res, matrix_res>>

(***************************************************************************)
(* num_bigint::BigInt: an integer of unbounded precision.  It is held as a *)
(* sign and a magnitude, the magnitude a little-endian sequence of limbs   *)
(* in base Base without leading zero limbs, so that equal integers are     *)
(* equal values and no operation overflows.                                *)
(***************************************************************************)
Base == 10 ^ 4

\* m without its leading zero limbs
MagNorm(m) ==
    IF \A i \in 1..Len(m) : m[i] = 0 THEN <<>>
    ELSE SubSeq(m, 1, CHOOSE i \in 1..Len(m) :
                          m[i] # 0 /\ \A j \in (i + 1)..Len(m) : m[j] = 0)

RECURSIVE MagFromNat(_)
MagFromNat(n) ==
    IF n = 0 THEN <<>> ELSE <<n % Base>> \o MagFromNat(n \div Base)

\* -1, 0, 1 as a < b, a = b, a > b; the top limb that differs decides.
MagCmp(a, b) ==
    IF Len(a) < Len(b) THEN -1
    ELSE IF Len(a) > Len(b) THEN 1
    ELSE IF a = b THEN 0
    ELSE LET i == CHOOSE i \in 1..Len(a) :
                      a[i] # b[i] /\ \A j \in (i + 1)..Len(a) : a[j] = b[j]
         IN  IF a[i] < b[i] THEN -1 ELSE 1

Limb(m, i) == IF i <= Len(m) THEN m[i] ELSE 0

Longest(a, b) == IF Len(a) >= Len(b) THEN Len(a) ELSE Len(b)

\* The carry out of limb i of the limb-wise sums s (each below 2 * Base): a
\* limb of Base - 1 hands on the carry that comes into it.
RECURSIVE CarryOut(_, _)
CarryOut(s, i) ==
    IF i = 0 THEN 0
    ELSE IF s[i] >= Base THEN 1
    ELSE IF s[i] < Base - 1 THEN 0
    ELSE CarryOut(s, i - 1)

MagAdd(a, b) ==
    LET n == Longest(a, b)
        s == [i \in 1..n |-> Limb(a, i) + Limb(b, i)]
        t == [i \in 1..n |-> (s[i] + CarryOut(s, i - 1)) % Base]
    IN  t \o (IF CarryOut(s, n) = 1 THEN <<1>> ELSE <<>>)

\* The borrow out of limb i of a - b: equal limbs hand on the borrow that
\* comes into them.
RECURSIVE BorrowOut(_, _, _)
BorrowOut(a, b, i) ==
    IF i = 0 THEN 0
    ELSE IF a[i] < Limb(b, i) THEN 1
    ELSE IF a[i] > Limb(b, i) THEN 0
    ELSE BorrowOut(a, b, i - 1)

\* a - b for a >= b
MagSub(a, b) ==
    MagNorm([i \in 1..Len(a) |->
                (a[i] - Limb(b, i) - BorrowOut(a, b, i - 1) + Base) % Base])

\* a times the limb d: the products a[i] * d are below Base * Base; their low
\* parts and their high parts, one limb up, are added.
MagMulLimb(a, d) ==
    MagNorm(MagAdd([i \in 1..Len(a) |-> (a[i] * d) % Base],
                   <<0>> \o [i \in 1..Len(a) |-> (a[i] * d) \div Base]))

\* a shifted up by k limbs
MagShift(a, k) == IF a = <<>> THEN <<>> ELSE [i \in 1..k |-> 0] \o a

\* a times the limbs lo..hi of b, by halves
RECURSIVE MagMulRange(_, _, _, _)
MagMulRange(a, b, lo, hi) ==
    IF lo = hi THEN MagMulLimb(a, b[lo])
    ELSE LET mid == (lo + hi) \div 2
         IN  MagAdd(MagMulRange(a, b, lo, mid),
                    MagShift(MagMulRange(a, b, mid + 1, hi), mid + 1 - lo))

MagMul(a, b) ==
    IF a = <<>> \/ b = <<>> THEN <<>> ELSE MagMulRange(a, b, 1, Len(b))

\* <<quotient, remainder>> of a by b, b > 0, by doubling the divisor.
RECURSIVE MagDivMod(_, _)
MagDivMod(a, b) ==
    IF MagCmp(a, b) < 0 THEN <<(<<>>), a>>
    ELSE LET h  == MagDivMod(a, MagAdd(b, b))
             q2 == MagAdd(h[1], h[1])
         IN  IF MagCmp(h[2], b) >= 0
             THEN <<MagAdd(q2, <<1>>), MagSub(h[2], b)>>
             ELSE <<q2, h[2]>>

BigMk(neg, mag) == [mag |-> mag, neg |-> (neg /\ mag # <<>>)]

\* BigInt::from(i32)
BigFrom(i) == BigMk(i < 0, MagFromNat(IF i < 0 THEN 0 - i ELSE i))

BigNeg(a) == BigMk(~a.neg, a.mag)

BigAdd(a, b) ==
    IF a.neg = b.neg THEN BigMk(a.neg, MagAdd(a.mag, b.mag))
    ELSE IF MagCmp(a.mag, b.mag) >= 0 THEN BigMk(a.neg, MagSub(a.mag, b.mag))
    ELSE BigMk(b.neg, MagSub(b.mag, a.mag))

BigSub(a, b) == BigAdd(a, BigNeg(b))

BigMul(a, b) == BigMk(a.neg # b.neg, MagMul(a.mag, b.mag))

\* -1, 0, 1 as a < b, a = b, a > b
BigCmp(a, b) ==
    IF a.neg /\ ~b.neg THEN -1
    ELSE IF ~a.neg /\ b.neg THEN 1
    ELSE IF a.neg THEN MagCmp(b.mag, a.mag)
    ELSE MagCmp(a.mag, b.mag)

\* BigInt's / and % truncate towards zero; the remainder has the dividend's sign.
BigDiv(a, b) == BigMk(a.neg # b.neg, MagDivMod(a.mag, b.mag)[1])

BigRem(a, b) == BigMk(a.neg, MagDivMod(a.mag, b.mag)[2])

Digit(d) == SubSeq("0123456789", d + 1, d + 1)

RECURSIVE NatToStr(_)
NatToStr(n) == IF n < 10 THEN Digit(n) ELSE NatToStr(n \div 10) \o Digit(n % 10)

RECURSIVE Pad(_, _)
Pad(s, width) == IF Len(s) >= width THEN s ELSE Pad("0" \o s, width)

RECURSIVE MagToStr(_)
MagToStr(m) ==
    IF Len(m) = 1 THEN NatToStr(m[1])
    ELSE MagToStr(Tail(m)) \o Pad(NatToStr(Head(m)), 4)

\* BigInt's Display: the decimal digits, after a minus sign when negative.
BigToStr(a) ==
    IF a.mag = <<>> THEN "0"
    ELSE (IF a.neg THEN "-" ELSE "") \o MagToStr(a.mag)

(***************************************************************************)
(* The host call stack.  A call nested deeper than MaxStack exhausts it:   *)
(* the process aborts, which no Result carries.  An aborted call is the    *)
(* record Aborted(why); a call that returns is Returned(v).                *)
(***************************************************************************)
MaxStack == 24

Returned(v) == [tag |-> "Returned", v |-> v]

Aborted(why) == [tag |-> "Aborted", v |-> why]

StackOverflow == Aborted("stack overflow")

(***************************************************************************)
(* src/fib.rs                                                              *)
(***************************************************************************)
Big0 == BigFrom(0)

Big1 == BigFrom(1)

Big2 == BigFrom(2)

\* Matrix2x2 = [[BigInt; 2]; 2], indexed from 1 here: a[i + 1][j + 1] is a[i][j].
__matrix__x(a, b) ==
    LET x00 == BigAdd(BigMul(a[1][1], b[1][1]), BigMul(a[1][2], b[2][1]))
        x01 == BigAdd(BigMul(a[1][1], b[1][2]), BigMul(a[1][2], b[2][2]))
        x10 == BigAdd(BigMul(a[2][1], b[1][1]), BigMul(a[2][2], b[2][1]))
        x11 == BigAdd(BigMul(a[2][1], b[1][2]), BigMul(a[2][2], b[2][2]))
    IN  <<(<<x00, x01>>), (<<x10, x11>>)>>

\* depth is the number of host frames below this call.
RECURSIVE __pow(_, _, _)
__pow(matrix, n, depth) ==
    IF depth > MaxStack THEN StackOverflow
    ELSE IF n = Big1 THEN Returned(matrix)
    ELSE IF BigRem(n, Big2) = Big0
    THEN LET half_pow == __pow(matrix, BigDiv(n, Big2), depth + 1)
         IN  IF half_pow.tag = "Aborted" THEN half_pow
             ELSE Returned(__matrix__x(half_pow.v, half_pow.v))
    ELSE LET rest == __pow(matrix, BigSub(n, Big1), depth + 1)
         IN  IF rest.tag = "Aborted" THEN rest
             ELSE Returned(__matrix__x(matrix, rest.v))

\* A variant of matrix_entry that reads res[0][0], the entry beside the one
\* __fib_matrix reads.
matrix_entry_first(res) == IF res.tag = "Aborted" THEN res ELSE Returned(res.v[1][1])

\* res[1][0] of what __pow returned
matrix_entry(res) == IF res.tag = "Aborted" THEN res ELSE Returned(res.v[2][1])

__fib_matrix(n, depth) ==
    matrix_entry(__pow(<<(<<Big1, Big1>>), (<<Big1, Big0>>)>>, n, depth + 1))

\* One turn of __fib_iter's `while i < nth`: the body when the guard holds; once
\* the guard fails the loop has been left and the state stays as it is.
fib_iter_step(s, n) ==
    IF BigCmp(s.i, n) < 0
    THEN [a |-> s.b, b |-> BigAdd(s.a, s.b), i |-> BigAdd(s.i, Big1)]
    ELSE s

\* Up to k turns of the loop, composed by halves so that the nesting of the
\* evaluation grows with the logarithm of k; it stops where the guard fails.
RECURSIVE fib_iter_turns(_, _, _)
fib_iter_turns(s, n, k) ==
    IF k = 1 THEN fib_iter_step(s, n)
    ELSE LET h == fib_iter_turns(s, n, k \div 2)
         IN  IF BigCmp(h.i, n) < 0 THEN fib_iter_turns(h, n, k - (k \div 2))
             ELSE h

\* The loop run until its guard fails: k turns, then twice as many.
RECURSIVE fib_iter_loop(_, _, _)
fib_iter_loop(s, n, k) ==
    LET t == fib_iter_turns(s, n, k)
    IN  IF BigCmp(t.i, n) < 0 THEN fib_iter_loop(t, n, 2 * k) ELSE t

__fib_iter(n) == fib_iter_loop([a |-> Big0, b |-> Big1, i |-> Big0], n, 1).a

(***************************************************************************)
(* src/ast.rs: Location, Parameter and the variants of Term.  A term is a  *)
(* record whose kind is the variant's name (the serde tag).                *)
(***************************************************************************)
Location(start, end) == [start |-> start, end |-> end, filename |-> "source.rinha"]

Parameter(text, location) == [text |-> text, location |-> location]

TermBinary(lhs, op, rhs, location) ==
    [kind |-> "Binary", lhs |-> lhs, op |-> op, rhs |-> rhs, location |-> location]

TermBool(value, location) == [kind |-> "Bool", value |-> value, location |-> location]

TermCall(callee, arguments, location) ==
    [kind |-> "Call", callee |-> callee, arguments |-> arguments, location |-> location]

TermFirst(value, location) == [kind |-> "First", value |-> value, location |-> location]

TermFunction(parameters, value, location) ==
    [kind |-> "Function", parameters |-> parameters, value |-> value,
     location |-> location]

TermIf(condition, then, otherwise, location) ==
    [kind |-> "If", condition |-> condition, then |-> then, otherwise |-> otherwise,
     location |-> location]

TermInt(value, location) == [kind |-> "Int", value |-> value, location |-> location]

TermLet(name, value, next, location) ==
    [kind |-> "Let", name |-> name, value |-> value, next |-> next,
     location |-> location]

TermPrint(value, location) == [kind |-> "Print", value |-> value, location |-> location]

TermSecond(value, location) == [kind |-> "Second", value |-> value, location |-> location]

TermStr(value, location) == [kind |-> "Str", value |-> value, location |-> location]

TermTuple(first, second, location) ==
    [kind |-> "Tuple", first |-> first, second |-> second, location |-> location]

TermVar(text, location) == [kind |-> "Var", text |-> text, location |-> location]

BinaryOp ==
    {"Add", "Sub", "Mul", "Div", "Rem", "Eq", "Neq", "Lt", "Gt", "Lte", "Gte", "And", "Or"}

(***************************************************************************)
(* src/main.rs: Error, Context, Closure, Output.                           *)
(***************************************************************************)
Error(message, location) ==
    [start |-> location.start, end |-> location.end, filename |-> location.filename,
     message |-> message]

\* Option<Box<Context>>: <<>> is None, <<c>> is Some(c).  A HashMap is a function
\* on its keys.
EmptyMap == <<>>

Context(outter, inner) == [outter |-> outter, inner |-> inner]

insert(map, key, value) ==
    [k \in (DOMAIN map) \cup {key} |-> IF k = key THEN value ELSE map[k]]

\* Rc<RefCell<Context>> around a clone that nothing borrows mutably: the context
\* field of a Closure is the cloned Context itself.
Closure(body, args, ctx) == [body |-> body, args |-> args, context |-> ctx]

OutputBool(x) == [tag |-> "Bool", v |-> x]

OutputInt(x) == [tag |-> "Int", v |-> x]

OutputStr(x) == [tag |-> "Str", v |-> x]

OutputTuple(x0, x1) == [tag |-> "Tuple", v |-> <<x0, x1>>]

OutputClosure(c) == [tag |-> "Closure", v |-> c]

OutputVoid == [tag |-> "Void", v |-> <<>>]

\* Result<Output, Error>
Ok(v) == [tag |-> "Ok", v |-> v]

Err(e) == [tag |-> "Err", v |-> e]

\* #[derive(PartialEq)] on Term: the same variant and equal fields.
RECURSIVE TermEq(_, _)
TermEq(a, b) ==
    /\ a.kind = b.kind
    /\ a.location = b.location
    /\ CASE a.kind \in {"Bool", "Int", "Str"} -> a.value = b.value
         [] a.kind = "Var" -> a.text = b.text
         [] a.kind \in {"Print", "First", "Second"} -> TermEq(a.value, b.value)
         [] a.kind = "Binary" ->
               a.op = b.op /\ TermEq(a.lhs, b.lhs) /\ TermEq(a.rhs, b.rhs)
         [] a.kind = "If" ->
               /\ TermEq(a.condition, b.condition)
               /\ TermEq(a.then, b.then)
               /\ TermEq(a.otherwise, b.otherwise)
         [] a.kind = "Tuple" -> TermEq(a.first, b.first) /\ TermEq(a.second, b.second)
         [] a.kind = "Let" ->
               a.name = b.name /\ TermEq(a.value, b.value) /\ TermEq(a.next, b.next)
         [] a.kind = "Function" ->
               a.parameters = b.parameters /\ TermEq(a.value, b.value)
         [] a.kind = "Call" ->
               /\ TermEq(a.callee, b.callee)
               /\ Len(a.arguments) = Len(b.arguments)
               /\ \A i \in 1..Len(a.arguments) : TermEq(a.arguments[i], b.arguments[i])

\* #[derive(PartialEq)] on Output, Closure and Context: the same variant and
\* equal payloads; an Rc<RefCell<Context>> is compared by what it holds.
RECURSIVE OutputEq(_, _)
RECURSIVE ContextEq(_, _)
OutputEq(a, b) ==
    /\ a.tag = b.tag
    /\ CASE a.tag \in {"Bool", "Int", "Str"} -> a.v = b.v
         [] a.tag = "Tuple" -> OutputEq(a.v[1], b.v[1]) /\ OutputEq(a.v[2], b.v[2])
         [] a.tag = "Closure" ->
               /\ TermEq(a.v.body, b.v.body)
               /\ a.v.args = b.v.args
               /\ ContextEq(a.v.context, b.v.context)
         [] a.tag = "Void" -> TRUE

ContextEq(c, d) ==
    /\ Len(c.outter) = Len(d.outter)
    /\ Len(c.outter) = 1 => ContextEq(c.outter[1], d.outter[1])
    /\ DOMAIN c.inner = DOMAIN d.inner
    /\ \A k \in DOMAIN c.inner : OutputEq(c.inner[k], d.inner[k])

BoolToStr(x) == IF x THEN "true" ELSE "false"

\* impl fmt::Display for Output
Display(o) ==
    CASE o.tag = "Bool" -> BoolToStr(o.v)
      [] o.tag = "Int"  -> BigToStr(o.v)
      [] o.tag = "Str"  -> o.v
      [] OTHER          -> ""

\* The lines the match of Term::Print writes with println!.
println(expr) ==
    CASE expr.tag = "Bool"    -> <<BoolToStr(expr.v)>>
      [] expr.tag = "Int"     -> <<BigToStr(expr.v)>>
      [] expr.tag = "Str"     -> <<expr.v>>
      [] expr.tag = "Tuple"   ->
            <<"(" \o Display(expr.v[1]) \o ", " \o Display(expr.v[2]) \o ")">>
      [] expr.tag = "Closure" -> <<"<#closure>">>
      [] expr.tag = "Void"    -> <<>>

(***************************************************************************)
(* The ordering of String: the bytes compared in order.  The strings of    *)
(* the model are made of the printable ASCII characters from the space     *)
(* (32) to the underscore (95) and from a (97) to the tilde (126).         *)
(***************************************************************************)
AsciiFrom32 ==
    " !\"#$%&'()*+,-./0123456789:;<=>?@ABCDEFGHIJKLMNOPQRSTUVWXYZ[\\]^_"

AsciiFrom97 == "abcdefghijklmnopqrstuvwxyz{|}~"

RECURSIVE IndexIn(_, _, _)
IndexIn(table, c, i) ==
    IF i > Len(table) THEN 0
    ELSE IF SubSeq(table, i, i) = c THEN i
    ELSE IndexIn(table, c, i + 1)

Byte(c) ==
    IF IndexIn(AsciiFrom32, c, 1) > 0 THEN 31 + IndexIn(AsciiFrom32, c, 1)
    ELSE 96 + IndexIn(AsciiFrom97, c, 1)

\* -1, 0, 1 as a < b, a = b, a > b
RECURSIVE StrCmp(_, _)
StrCmp(a, b) ==
    IF Len(a) = 0 /\ Len(b) = 0 THEN 0
    ELSE IF Len(a) = 0 THEN -1
    ELSE IF Len(b) = 0 THEN 1
    ELSE IF Byte(Head(a)) < Byte(Head(b)) THEN -1
    ELSE IF Byte(Head(a)) > Byte(Head(b)) THEN 1
    ELSE StrCmp(Tail(a), Tail(b))

(***************************************************************************)
(* eval, Term::Binary: the match on x.op over (lhs, rhs).                  *)
(***************************************************************************)
BothInt(lhs, rhs) == lhs.tag = "Int" /\ rhs.tag = "Int"

BothStr(lhs, rhs) == lhs.tag = "Str" /\ rhs.tag = "Str"

binary_add(lhs, rhs, location) ==
    CASE BothInt(lhs, rhs) -> Ok(OutputInt(BigAdd(lhs.v, rhs.v)))
      [] BothStr(lhs, rhs) -> Ok(OutputStr(lhs.v \o rhs.v))
      [] lhs.tag = "Str" /\ rhs.tag = "Int" -> Ok(OutputStr(lhs.v \o BigToStr(rhs.v)))
      [] lhs.tag = "Int" /\ rhs.tag = "Str" -> Ok(OutputStr(BigToStr(lhs.v) \o rhs.v))
      [] OTHER -> Err(Error("Cannot perform add operation", location))

binary_sub(lhs, rhs, location) ==
    IF BothInt(lhs, rhs) THEN Ok(OutputInt(BigSub(lhs.v, rhs.v)))
    ELSE Err(Error("Cannot perform sub operation", location))

binary_mul(lhs, rhs, location) ==
    IF BothInt(lhs, rhs) THEN Ok(OutputInt(BigMul(lhs.v, rhs.v)))
    ELSE Err(Error("Cannot perform mul operation", location))

\* A variant of binary_div that refuses only the divisor zero, not the
\* negative ones.
binary_div_nonzero(lhs, rhs, location) ==
    IF BothInt(lhs, rhs)
    THEN IF BigCmp(rhs.v, BigFrom(0)) # 0
         THEN Ok(OutputInt(BigDiv(lhs.v, rhs.v)))
         ELSE Err(Error("Arithmetic error, dividing by zero", location))
    ELSE Err(Error("Cannot perform div operation", location))

binary_div(lhs, rhs, location) ==
    IF BothInt(lhs, rhs)
    THEN IF BigCmp(rhs.v, BigFrom(0)) > 0
         THEN Ok(OutputInt(BigDiv(lhs.v, rhs.v)))
         ELSE Err(Error("Arithmetic error, dividing by zero", location))
    ELSE Err(Error("Cannot perform div operation", location))

binary_eq(lhs, rhs) == Ok(OutputBool(OutputEq(lhs, rhs)))

binary_neq(lhs, rhs) == Ok(OutputBool(~OutputEq(lhs, rhs)))

\* Whether the ordering c (-1, 0, 1) of lhs and rhs passes the comparison.
holds(name, c) ==
    CASE name = "gt"  -> c > 0
      [] name = "lt"  -> c < 0
      [] name = "gte" -> c >= 0
      [] name = "lte" -> c <= 0

\* Gt, Lt, Gte, Lte
binary_cmp(lhs, rhs, location, name) ==
    CASE BothInt(lhs, rhs) -> Ok(OutputBool(holds(name, BigCmp(lhs.v, rhs.v))))
      [] BothStr(lhs, rhs) -> Ok(OutputBool(holds(name, StrCmp(lhs.v, rhs.v))))
      [] OTHER -> Err(Error("Cannot perform " \o name \o " operation", location))

binary_rem(lhs, rhs, location) ==
    IF BothInt(lhs, rhs)
    THEN IF BigCmp(rhs.v, BigFrom(0)) > 0
         THEN Ok(OutputInt(BigRem(lhs.v, rhs.v)))
         ELSE Err(Error("Arithmetic error, dividing by zero", location))
    ELSE Err(Error("Cannot perform rem operation", location))

\* A variant of binary_and that coerces the rhs to a Bool.
binary_and_bool(lhs, rhs) ==
    IF lhs.tag = "Bool" /\ lhs.v = FALSE THEN Ok(OutputBool(FALSE))
    ELSE Ok(OutputBool(rhs.tag = "Bool" /\ rhs.v))

binary_and(lhs, rhs) ==
    IF lhs.tag = "Bool" /\ lhs.v = FALSE THEN Ok(OutputBool(FALSE)) ELSE Ok(rhs)

binary_or(lhs, rhs) ==
    IF lhs.tag = "Bool" /\ lhs.v = TRUE THEN Ok(OutputBool(TRUE)) ELSE Ok(rhs)

binary_op(op, lhs, rhs, location) ==
    CASE op = "Add" -> binary_add(lhs, rhs, location)
      [] op = "Sub" -> binary_sub(lhs, rhs, location)
      [] op = "Mul" -> binary_mul(lhs, rhs, location)
      [] op = "Div" -> binary_div(lhs, rhs, location)
      [] op = "Eq"  -> binary_eq(lhs, rhs)
      [] op = "Neq" -> binary_neq(lhs, rhs)
      [] op = "Gt"  -> binary_cmp(lhs, rhs, location, "gt")
      [] op = "Lt"  -> binary_cmp(lhs, rhs, location, "lt")
      [] op = "Gte" -> binary_cmp(lhs, rhs, location, "gte")
      [] op = "Lte" -> binary_cmp(lhs, rhs, location, "lte")
      [] op = "Rem" -> binary_rem(lhs, rhs, location)
      [] op = "And" -> binary_and(lhs, rhs)
      [] op = "Or"  -> binary_or(lhs, rhs)

(***************************************************************************)
(* eval(term, context) -> Result<Output, Error>.  What a call leaves is    *)
(* the record Ret(res, context, out): res is Ok(v), Err(e) or, when the    *)
(* process died in the call, Aborted(why); context is the caller's Context *)
(* after the call (eval takes it as &mut); out is standard output, the     *)
(* lines written so far.  depth counts the host frames below the call.     *)
(* The operator `?` is the test res.tag # "Ok": the call returns what the  *)
(* failed sub-call left.                                                   *)
(***************************************************************************)
Ret(res, ctx, out) == [res |-> res, context |-> ctx, out |-> out]

RECURSIVE eval(_, _, _, _)

eval_print(x, ctx, out, depth) ==
    LET expr == eval(x.value, ctx, out, depth + 1)
    IN  IF expr.res.tag # "Ok" THEN expr
        ELSE Ret(Ok(OutputVoid), expr.context, expr.out \o println(expr.res.v))

\* A variant of eval_binary whose And and Or short-circuit: the rhs is not
\* evaluated once the lhs decides.
eval_binary_short(x, ctx, out, depth) ==
    LET lhs == eval(x.lhs, ctx, out, depth + 1)
    IN  IF lhs.res.tag # "Ok" THEN lhs
        ELSE IF /\ lhs.res.v.tag = "Bool"
                /\ \/ x.op = "And" /\ ~lhs.res.v.v
                   \/ x.op = "Or" /\ lhs.res.v.v
        THEN lhs
        ELSE LET rhs == eval(x.rhs, lhs.context, lhs.out, depth + 1)
             IN  IF rhs.res.tag # "Ok" THEN rhs
                 ELSE Ret(binary_op(x.op, lhs.res.v, rhs.res.v, x.location),
                          rhs.context, rhs.out)

eval_binary(x, ctx, out, depth) ==
    LET lhs == eval(x.lhs, ctx, out, depth + 1)
    IN  IF lhs.res.tag # "Ok" THEN lhs
        ELSE LET rhs == eval(x.rhs, lhs.context, lhs.out, depth + 1)
             IN  IF rhs.res.tag # "Ok" THEN rhs
                 ELSE Ret(binary_op(x.op, lhs.res.v, rhs.res.v, x.location),
                          rhs.context, rhs.out)

eval_if(x, ctx, out, depth) ==
    LET cond == eval(x.condition, ctx, out, depth + 1)
    IN  IF cond.res.tag # "Ok" THEN cond
        ELSE IF cond.res.v.tag = "Bool"
        THEN IF cond.res.v.v
             THEN eval(x.then, cond.context, cond.out, depth + 1)
             ELSE eval(x.otherwise, cond.context, cond.out, depth + 1)
        ELSE Ret(Err(Error("Condition expression not resolve to a boolean primitive",
                           x.location)),
                 cond.context, cond.out)

\* A variant of eval_tuple that evaluates the second component before it
\* looks at the Result of the first.
eval_tuple_eager(x, ctx, out, depth) ==
    LET _1st == eval(x.first, ctx, out, depth + 1)
        _2nd == eval(x.second, _1st.context, _1st.out, depth + 1)
    IN  IF _1st.res.tag # "Ok" THEN Ret(_1st.res, _2nd.context, _2nd.out)
        ELSE IF _2nd.res.tag # "Ok" THEN _2nd
        ELSE Ret(Ok(OutputTuple(_1st.res.v, _2nd.res.v)), _2nd.context, _2nd.out)

eval_tuple(x, ctx, out, depth) ==
    LET _1st == eval(x.first, ctx, out, depth + 1)
    IN  IF _1st.res.tag # "Ok" THEN _1st
        ELSE LET _2nd == eval(x.second, _1st.context, _1st.out, depth + 1)
             IN  IF _2nd.res.tag # "Ok" THEN _2nd
                 ELSE Ret(Ok(OutputTuple(_1st.res.v, _2nd.res.v)),
                          _2nd.context, _2nd.out)

eval_first(x, ctx, out, depth) ==
    LET val == eval(x.value, ctx, out, depth + 1)
    IN  IF val.res.tag # "Ok" THEN val
        ELSE IF val.res.v.tag = "Tuple"
        THEN Ret(Ok(val.res.v.v[1]), val.context, val.out)
        ELSE Ret(Err(Error("Cannot access first of a non tuple argument", x.location)),
                 val.context, val.out)

eval_second(x, ctx, out, depth) ==
    LET val == eval(x.value, ctx, out, depth + 1)
    IN  IF val.res.tag # "Ok" THEN val
        ELSE IF val.res.v.tag = "Tuple"
        THEN Ret(Ok(val.res.v.v[2]), val.context, val.out)
        ELSE Ret(Err(Error("Cannot access second of a non tuple argument", x.location)),
                 val.context, val.out)

\* Term::Var's search: context.inner, then the inner of each outter in turn.
\* <<v>> is the value found, <<>> none.
RECURSIVE lookup(_, _)
lookup(ctx, text) ==
    IF text \in DOMAIN ctx.inner THEN <<ctx.inner[text]>>
    ELSE IF Len(ctx.outter) = 0 THEN <<>>
    ELSE lookup(ctx.outter[1], text)

eval_var(x, ctx, out) ==
    LET var == lookup(ctx, x.text)
    IN  IF Len(var) = 1 THEN Ret(Ok(var[1]), ctx, out)
        ELSE Ret(Err(Error("Variable " \o x.text \o " is not declared", x.location)),
                 ctx, out)

\* The value Term::Let inserts: a Closure is rebuilt around a clone of the
\* context as it is before the insertion.
let_value(expr, ctx) ==
    IF expr.tag = "Closure"
    THEN OutputClosure(Closure(expr.v.body, expr.v.args, ctx))
    ELSE expr

eval_let(x, ctx, out, depth) ==
    LET id   == x.name.text
        expr == eval(x.value, ctx, out, depth + 1)
    IN  IF expr.res.tag # "Ok" THEN expr
        ELSE eval(x.next,
                  [expr.context EXCEPT
                      !.inner = insert(@, id, let_value(expr.res.v, expr.context))],
                  expr.out, depth + 1)

FibThreshold == 1000

\* The native routine the fast path picks for nth.
fib_native(n, depth) ==
    IF BigCmp(n, BigFrom(FibThreshold)) < 0
    THEN Returned(__fib_iter(n))
    ELSE __fib_matrix(n, depth)

\* A variant of is_fib that intercepts another name.
is_fibonacci(callee) == callee.kind = "Var" /\ callee.text = "fibonacci"

\* Whether the callee is the bare name the fast path intercepts.
is_fib(callee) == callee.kind = "Var" /\ callee.text = "fib"

\* The loop over y.args zipped with x.arguments, from the i-th pair on: each
\* argument is evaluated in the caller's context and inserted in new_context.
RECURSIVE bind_arguments(_, _, _, _, _, _, _)
bind_arguments(args, arguments, i, new_context, ctx, out, depth) ==
    IF i > Len(args) \/ i > Len(arguments) THEN Ret(Ok(new_context), ctx, out)
    ELSE LET arg == eval(arguments[i], ctx, out, depth + 1)
         IN  IF arg.res.tag # "Ok" THEN arg
             ELSE bind_arguments(args, arguments, i + 1,
                                 [new_context EXCEPT
                                     !.inner = insert(@, args[i].text, arg.res.v)],
                                 arg.context, arg.out, depth)

\* new_context, made at the entry of Term::Call: an empty scope whose outter
\* is a clone of the caller's context.  The closure's body is evaluated in it.
call_context(ctx) == Context(<<ctx>>, EmptyMap)

\* A variant of apply that hands the scope of the body back to the caller.
apply_leaking(x, func, new_context, ctx, out, depth) ==
    IF func.tag = "Closure"
    THEN LET y == func.v
         IN  IF Len(y.args) # Len(x.arguments)
             THEN Ret(Err(Error("Arguments declaration differs parameters declaration",
                                x.location)),
                      ctx, out)
             ELSE LET bound == bind_arguments(y.args, x.arguments, 1, new_context,
                                              ctx, out, depth)
                  IN  IF bound.res.tag # "Ok" THEN bound
                      ELSE eval(y.body, bound.res.v, bound.out, depth + 1)
    ELSE Ret(Err(Error("Calling a not callable", x.location)), ctx, out)

\* The match on func of Term::Call.
apply(x, func, new_context, ctx, out, depth) ==
    IF func.tag = "Closure"
    THEN LET y == func.v
         IN  IF Len(y.args) # Len(x.arguments)
             THEN Ret(Err(Error("Arguments declaration differs parameters declaration",
                                x.location)),
                      ctx, out)
             ELSE LET bound == bind_arguments(y.args, x.arguments, 1, new_context,
                                              ctx, out, depth)
                  IN  IF bound.res.tag # "Ok" THEN bound
                      ELSE LET body == eval(y.body, bound.res.v, bound.out, depth + 1)
                           IN  Ret(body.res, bound.context, body.out)
    ELSE Ret(Err(Error("Calling a not callable", x.location)), ctx, out)

\* Term::Call from `let func = eval(*x.callee, context)?` on.  entry is the
\* context as it was at the entry of Term::Call, which new_context cloned.
call(x, entry, ctx, out, depth) ==
    LET func == eval(x.callee, ctx, out, depth + 1)
    IN  IF func.res.tag # "Ok" THEN func
        ELSE apply(x, func.res.v, call_context(entry), func.context, func.out, depth)

\* Ok(Output::Int(res)) of the fast path, unless the native routine died.
fib_result(res) == IF res.tag = "Aborted" THEN res ELSE Ok(OutputInt(res.v))

\* The fast path once arguments[0] has been evaluated: an error returns, an
\* Int returns the native result, and any other value falls through to the
\* evaluation of the callee.
fib_fast_argument(x, entry, arg, depth) ==
    IF arg.res.tag # "Ok" THEN arg
    ELSE IF arg.res.v.tag = "Int"
    THEN Ret(fib_result(fib_native(arg.res.v.v, depth + 1)), arg.context, arg.out)
    ELSE call(x, entry, arg.context, arg.out, depth)

\* The fast-path block of Term::Call, entered when the callee is the bare
\* name fib: x.arguments[0] is indexed without a test of the length.
fib_fast_path(x, ctx, out, depth) ==
    IF Len(x.arguments) = 0 THEN Ret(Aborted("index out of bounds"), ctx, out)
    ELSE fib_fast_argument(x, ctx, eval(x.arguments[1], ctx, out, depth + 1), depth)

eval_call(x, ctx, out, depth) ==
    IF is_fib(x.callee) THEN fib_fast_path(x, ctx, out, depth)
    ELSE call(x, ctx, ctx, out, depth)

eval_function(x, ctx, out) ==
    Ret(Ok(OutputClosure(Closure(x.value, x.parameters, ctx))), ctx, out)

eval(t, ctx, out, depth) ==
    IF depth > MaxStack THEN Ret(StackOverflow, ctx, out)
    ELSE CASE t.kind = "Bool"     -> Ret(Ok(OutputBool(t.value)), ctx, out)
           [] t.kind = "Int"      -> Ret(Ok(OutputInt(BigFrom(t.value))), ctx, out)
           [] t.kind = "Str"      -> Ret(Ok(OutputStr(t.value)), ctx, out)
           [] t.kind = "Print"    -> eval_print(t, ctx, out, depth)
           [] t.kind = "Binary"   -> eval_binary(t, ctx, out, depth)
           [] t.kind = "If"       -> eval_if(t, ctx, out, depth)
           [] t.kind = "Tuple"    -> eval_tuple(t, ctx, out, depth)
           [] t.kind = "First"    -> eval_first(t, ctx, out, depth)
           [] t.kind = "Second"   -> eval_second(t, ctx, out, depth)
           [] t.kind = "Var"      -> eval_var(t, ctx, out)
           [] t.kind = "Let"      -> eval_let(t, ctx, out, depth)
           [] t.kind = "Call"     -> eval_call(t, ctx, out, depth)
           [] t.kind = "Function" -> eval_function(t, ctx, out)


(***************************************************************************)
(* The programs.  read_json hands main the expression of a parsed file;    *)
(* the model draws it from the families below.  A node's location is       *)
(* L(i), i the node's number in its program.                               *)
(***************************************************************************)
L(i) == Location(i, i + 1)

VarAt(text, i) == TermVar(text, L(i))

BoolAt(value, i) == TermBool(value, L(i))

IntAt(value, i) == TermInt(value, L(i))

StrAt(value, i) == TermStr(value, L(i))

LetAt(text, value, next, i) == TermLet(Parameter(text, L(i)), value, next, L(i))

FnAt(names, body, i) ==
    TermFunction([k \in 1..Len(names) |-> Parameter(names[k], L(i))], body, L(i))

CallAt(callee, arguments, i) == TermCall(callee, arguments, L(i))

PrintAt(value, i) == TermPrint(value, L(i))

BinaryAt(lhs, op, rhs, i) == TermBinary(lhs, op, rhs, L(i))

IfAt(condition, then, otherwise, i) == TermIf(condition, then, otherwise, L(i))

TupleAt(first, second, i) == TermTuple(first, second, L(i))

\* The operands of the Binary and Print programs: one term or more for each
\* variant of Output, and a last one that fails.  They take the locations
\* from i on.
Operands(i) ==
    << BoolAt(TRUE, i),
       BoolAt(FALSE, i),
       IntAt(0, i),
       IntAt(5, i),
       IntAt(-3, i),
       StrAt("a", i),
       StrAt("ab", i),
       TupleAt(IntAt(1, i + 1), IntAt(2, i + 2), i),
       TupleAt(TupleAt(IntAt(1, i + 2), StrAt("b", i + 3), i + 1),
               FnAt(<<>>, IntAt(1, i + 5), i + 4), i),
       FnAt(<<"x">>, VarAt("x", i + 1), i),
       PrintAt(StrAt("void", i + 1), i),
       TermFirst(IntAt(1, i + 1), L(i)) >>

Operand(k, i) == Operands(i)[k]

OperandIds == 1..Len(Operands(0))

\* lhs op rhs
BinaryProgram(op, j, k) == BinaryAt(Operand(j, 10), op, Operand(k, 20), 1)

\* let _ = print(text); t
Noisy(text, t, i) == LetAt("_", PrintAt(StrAt(text, i + 2), i + 1), t, i)

\* (let _ = print("lhs"); lhs) op (let _ = print("rhs"); rhs)
NoisyProgram(op, j, k) ==
    BinaryAt(Noisy("lhs", Operand(j, 10), 30), op, Noisy("rhs", Operand(k, 20), 40), 1)

\* a op b over the integers from -MaxInt to MaxInt, op one of Div and Rem
MaxInt == 7

DivProgram(op, a, b) == BinaryAt(IntAt(a, 2), op, IntAt(b, 3), 1)

\* print(operand)
PrintProgram(k) == PrintAt(Operand(k, 10), 1)

\* let x = a; let f = fn () => x; let g = fn (x) => f(); g(b)
MaxArg == 2

LexicalProgram(a, b) ==
    LetAt("x", IntAt(a, 2),
        LetAt("f", FnAt(<<>>, VarAt("x", 5), 4),
            LetAt("g", FnAt(<<"x">>, CallAt(VarAt("f", 9), <<>>, 8), 7),
                CallAt(VarAt("g", 11), <<IntAt(b, 12)>>, 10), 6), 3), 1)

\* let mk = fn (x) => fn (y) => x + y; let add = mk(a); add(b)
EscapingProgram(a, b) ==
    LetAt("mk",
          FnAt(<<"x">>,
               FnAt(<<"y">>, BinaryAt(VarAt("x", 5), "Add", VarAt("y", 6), 4), 3), 2),
        LetAt("add", CallAt(VarAt("mk", 9), <<IntAt(a, 10)>>, 8),
            CallAt(VarAt("add", 12), <<IntAt(b, 13)>>, 11), 7), 1)

\* fn (n) => if n == 0 then 1 else n * fact(n - 1), from location i on
FactFn(i) ==
    FnAt(<<"n">>,
         IfAt(BinaryAt(VarAt("n", i + 3), "Eq", IntAt(0, i + 4), i + 2),
              IntAt(1, i + 5),
              BinaryAt(VarAt("n", i + 7), "Mul",
                       CallAt(VarAt("fact", i + 9),
                              <<BinaryAt(VarAt("n", i + 11), "Sub", IntAt(1, i + 12),
                                         i + 10)>>, i + 8), i + 6), i + 1), i)

\* fn (n) => if n < 2 then n else fibo(n - 1) + fibo(n - 2), from location i on
FiboFn(i) ==
    FnAt(<<"n">>,
         IfAt(BinaryAt(VarAt("n", i + 3), "Lt", IntAt(2, i + 4), i + 2),
              VarAt("n", i + 5),
              BinaryAt(CallAt(VarAt("fibo", i + 8),
                              <<BinaryAt(VarAt("n", i + 10), "Sub", IntAt(1, i + 11),
                                         i + 9)>>, i + 7),
                       "Add",
                       CallAt(VarAt("fibo", i + 13),
                              <<BinaryAt(VarAt("n", i + 15), "Sub", IntAt(2, i + 16),
                                         i + 14)>>, i + 12), i + 6), i + 1), i)

RecursiveFn(name, i) == IF name = "fact" THEN FactFn(i) ELSE FiboFn(i)

RecursiveNames == {"fact", "fibo"}

CallSites == {"direct", "returned"}

MaxRec == 5

\* direct:   let name = fn ...; name(n)
\* returned: let mk = fn () => (let name = fn ...; name); let f = mk(); f(n)
RecursionProgram(name, site, n) ==
    IF site = "direct"
    THEN LetAt(name, RecursiveFn(name, 10), CallAt(VarAt(name, 3), <<IntAt(n, 4)>>, 2), 1)
    ELSE LetAt("mk", FnAt(<<>>, LetAt(name, RecursiveFn(name, 10), VarAt(name, 4), 3), 2),
             LetAt("f", CallAt(VarAt("mk", 7), <<>>, 6),
                 CallAt(VarAt("f", 9), <<IntAt(n, 30)>>, 8), 5), 1)

\* What a program binds fib to before it calls it: nothing, another function
\* (which prints), a value that is no function.
FibBindings == {"unbound", "function", "value"}

FibBound(binding, next) ==
    CASE binding = "unbound"  -> next
      [] binding = "function" ->
            LetAt("fib", FnAt(<<"n">>, Noisy("guest", IntAt(7, 6), 3), 2), next, 1)
      [] binding = "value"    -> LetAt("fib", IntAt(5, 2), next, 1)

\* The argument of fib as a literal, or as a sum to evaluate.
ArgForms == {"literal", "sum"}

FibArg(form, n) ==
    IF form = "literal" THEN IntAt(n, 12)
    ELSE BinaryAt(IntAt(n - 1, 13), "Add", IntAt(1, 14), 12)

\* The arguments of fib: the small ones, those around the threshold, and one
\* far above it.
MaxSmallN == 20

Near == 3

FibThresholdWindow == (FibThreshold - Near)..(FibThreshold + Near)

FibInputs == (0..MaxSmallN) \cup FibThresholdWindow \cup {2 * FibThreshold}

\* [let fib = ...;] fib(n)
FibProgram(binding, form, n) ==
    FibBound(binding, CallAt(VarAt("fib", 11), <<FibArg(form, n)>>, 10))

\* How the body of the called function ends: with a value or with an error.
Endings == {"value", "error"}

\* The names of the parameter of the called function: the name of a binding
\* of the caller, and a fresh one.
FrameParams == {"x", "p"}

\* let x = a;
\* let f = fn (param) => (let x = a + 10; let y = 8; x or missing);
\* (let g = f; g)((let a = 5; a))
FrameProgram(param, ending, a) ==
    LetAt("x", IntAt(a, 2),
        LetAt("f",
              FnAt(<<param>>,
                   LetAt("x", IntAt(a + 10, 22),
                       LetAt("y", IntAt(8, 24),
                           IF ending = "value" THEN VarAt("x", 50) ELSE VarAt("missing", 50),
                           23),
                       21),
                   20),
              CallAt(LetAt("g", VarAt("f", 32), VarAt("g", 33), 31),
                     <<LetAt("a", IntAt(5, 42), VarAt("a", 43), 41)>>,
                     30),
              3),
        1)

\* The negative arguments of fib.
MaxNegative == 3

NegativeInputs == (0 - MaxNegative)..(0 - 1)

\* The values a program binds a callee to: three that are no function, and
\* printing functions of no, one and two parameters.
Callees(i) ==
    << IntAt(5, i),
       StrAt("s", i),
       TupleAt(IntAt(1, i + 1), IntAt(2, i + 2), i),
       FnAt(<<>>, Noisy("body", IntAt(7, i + 4), i + 1), i),
       FnAt(<<"x">>, Noisy("body", VarAt("x", i + 4), i + 1), i),
       FnAt(<<"x", "y">>, Noisy("body", VarAt("x", i + 4), i + 1), i) >>

CalleeIds == 1..Len(Callees(0))

CalleeNames == {"f", "fib"}

ArgKinds == {"int", "bool"}

MaxArguments == 2

CallArgument(kind, i) == IF kind = "int" THEN IntAt(1, i) ELSE BoolAt(TRUE, i)

\* let name = callee; name(argument, ... m times)
CallProgram(name, c, m, kind) ==
    LetAt(name, Callees(20)[c],
        CallAt(VarAt(name, 3), [k \in 1..m |-> CallArgument(kind, 3 + k)], 2), 1)

\* The line the k-th argument of a call prints when it is evaluated.
ArgLine(k) == "arg" \o NatToStr(k)

\* let name = fn (p1, ..., pm) => (let _ = print("body"); 7);
\* name((let _ = print("arg1"); argument), ..., (let _ = print("argm"); argument))
ArgumentsProgram(name, m, kind) ==
    LetAt(name,
          FnAt([k \in 1..m |-> "p" \o NatToStr(k)], Noisy("body", IntAt(7, 24), 21), 20),
          CallAt(VarAt(name, 3),
                 [k \in 1..m |-> Noisy(ArgLine(k), CallArgument(kind, 10 * k + 33), 10 * k + 30)],
                 2),
          1)

\* Terms that fail, each at the location i, with the message of its error.
Failings(i) ==
    << TermFirst(IntAt(1, i + 1), L(i)),
       TermSecond(StrAt("s", i + 1), L(i)),
       BinaryAt(IntAt(1, i + 1), "Div", IntAt(0, i + 2), i),
       BinaryAt(StrAt("a", i + 1), "Sub", IntAt(1, i + 2), i),
       VarAt("undeclared", i),
       CallAt(IntAt(5, i + 1), <<>>, i),
       CallAt(FnAt(<<"x">>, VarAt("x", i + 2), i + 1), <<>>, i),
       IfAt(IntAt(1, i + 1), IntAt(2, i + 2), IntAt(3, i + 3), i) >>

FailingMessages ==
    << "Cannot access first of a non tuple argument",
       "Cannot access second of a non tuple argument",
       "Arithmetic error, dividing by zero",
       "Cannot perform sub operation",
       "Variable undeclared is not declared",
       "Calling a not callable",
       "Arguments declaration differs parameters declaration",
       "Condition expression not resolve to a boolean primitive" >>

FailingIds == 1..Len(FailingMessages)

\* The places a failing term t is put in, whole programs: t is evaluated
\* after print("before"), and print("after") is what evaluation would reach
\* next, had t not failed.
Places(t) ==
    << BinaryAt(Noisy("before", t, 60), "Add", Noisy("after", IntAt(1, 70), 71), 1),
       BinaryAt(Noisy("before", BoolAt(FALSE, 70), 60), "And",
                BinaryAt(t, "Or", Noisy("after", IntAt(1, 72), 73), 71), 1),
       TupleAt(Noisy("before", t, 60), Noisy("after", IntAt(1, 70), 71), 1),
       LetAt("a", Noisy("before", t, 60), PrintAt(StrAt("after", 70), 71), 1),
       IfAt(Noisy("before", t, 60), PrintAt(StrAt("after", 70), 71),
            PrintAt(StrAt("after", 72), 73), 1),
       LetAt("a", PrintAt(Noisy("before", t, 60), 2), PrintAt(StrAt("after", 70), 71), 1),
       TermFirst(TupleAt(Noisy("before", t, 60), Noisy("after", IntAt(1, 70), 71), 2),
                 L(1)),
       TermSecond(Noisy("before", TupleAt(IntAt(1, 70), t, 2), 60), L(1)),
       LetAt("f", FnAt(<<"x", "y">>, PrintAt(StrAt("after", 70), 71), 2),
           CallAt(VarAt("f", 4),
                  <<Noisy("before", t, 60), Noisy("after", IntAt(1, 72), 73)>>, 3), 1),
       CallAt(Noisy("before", t, 60), <<Noisy("after", IntAt(1, 70), 71)>>, 1),
       CallAt(VarAt("fib", 2), <<Noisy("before", t, 60)>>, 1),
       LetAt("f", FnAt(<<>>, Noisy("before", t, 60), 2),
           LetAt("a", CallAt(VarAt("f", 5), <<>>, 4),
               PrintAt(StrAt("after", 70), 71), 3), 1) >>

PlaceIds == 1..Len(Places(IntAt(0, 50)))

\* The failing term e, at the location 50, in the place c.
FailingProgram(c, e) == Places(Failings(50)[e])[c]

(***************************************************************************)
(* main: the context it makes, its call of eval, and the closure of        *)
(* unwrap_or_else, which writes an Err as a line of standard output.       *)
(* program names the family and the parameters of the expression the file  *)
(* holds; nothing reads it but the properties.                             *)
(***************************************************************************)
Pending == [tag |-> "Pending", v |-> <<>>]

Program(family, args) == [family |-> family, args |-> args]

InitOf(family, args, t) ==
    /\ program = Program(family, args)
    /\ term = t
    /\ context = Context(<<>>, EmptyMap)
    /\ stdout = <<>>
    /\ result = Pending
    /\ pc = "ready"
    /\ nth = 0
    /\ iter_res = Pending
    /\ matrix_res = Pending

Init ==
    \/ \E op \in BinaryOp : \E j, k \in OperandIds :
          InitOf("Binary", <<op, j, k>>, BinaryProgram(op, j, k))
    \/ \E op \in BinaryOp : \E j, k \in OperandIds :
          InitOf("Noisy", <<op, j, k>>, NoisyProgram(op, j, k))
    \/ \E op \in {"Div", "Rem"} : \E a, b \in (0 - MaxInt)..MaxInt :
          InitOf("Div", <<op, a, b>>, DivProgram(op, a, b))
    \/ \E k \in OperandIds : InitOf("Print", <<k>>, PrintProgram(k))
    \/ \E a, b \in 0..MaxArg : InitOf("Lexical", <<a, b>>, LexicalProgram(a, b))
    \/ \E a, b \in 0..MaxArg : InitOf("Escaping", <<a, b>>, EscapingProgram(a, b))
    \/ \E name \in RecursiveNames : \E site \in CallSites : \E n \in 0..MaxRec :
          InitOf("Recursion", <<name, site, n>>, RecursionProgram(name, site, n))
    \/ \E binding \in FibBindings : \E form \in ArgForms : \E n \in FibInputs :
          InitOf("Fib", <<binding, form, n>>, FibProgram(binding, form, n))
    \/ \E name \in CalleeNames : \E c \in CalleeIds : \E m \in 0..MaxArguments :
          \E kind \in ArgKinds :
              InitOf("Call", <<name, c, m, kind>>, CallProgram(name, c, m, kind))
    \/ \E c \in PlaceIds : \E e \in FailingIds :
          InitOf("Failing", <<c, e>>, FailingProgram(c, e))
    \/ \E name \in CalleeNames : \E m \in 1..MaxArguments : \E kind \in ArgKinds :
          InitOf("Arguments", <<name, m, kind>>, ArgumentsProgram(name, m, kind))
    \/ \E param \in FrameParams : \E ending \in Endings : \E a \in 0..MaxArg :
          InitOf("Frame", <<param, ending, a>>, FrameProgram(param, ending, a))
    \/ \E binding \in FibBindings : \E form \in ArgForms : \E n \in NegativeInputs :
          InitOf("Negative", <<binding, form, n>>, FibProgram(binding, form, n))

\* What main keeps of the call of eval.
Evaluated(ret) ==
    /\ result' = ret.res
    /\ context' = ret.context
    /\ stdout' = ret.out
    /\ pc' = IF ret.res.tag = "Aborted" THEN "aborted" ELSE "evaluated"

Main ==
    /\ pc = "ready"
    /\ Evaluated(eval(term, context, stdout, 1))
    /\ UNCHANGED <<program, term, nth, iter_res, matrix_res>>

ErrorLine(err) ==
    err.filename \o ":" \o NatToStr(err.start) \o ":" \o NatToStr(err.end) \o ": "
        \o err.message

Report ==
    /\ pc = "evaluated"
    /\ stdout' = IF result.tag = "Err" THEN Append(stdout, ErrorLine(result.v))
                 ELSE stdout
    /\ pc' = "exit"
    /\ UNCHANGED <<program, term, context, result, nth, iter_res, matrix_res>>

Next == Main \/ Report

Spec == Init /\ [][Next]_vars

(***************************************************************************)
(* The native routines of src/fib.rs on their own: each is run once on     *)
(* nth, started on an empty host stack.                                    *)
(***************************************************************************)
InitFib ==
    /\ program = Program("Native", <<>>)
    /\ term = IntAt(0, 1)
    /\ context = Context(<<>>, EmptyMap)
    /\ stdout = <<>>
    /\ result = Pending
    /\ pc = "fib"
    /\ nth \in FibInputs
    /\ iter_res = Pending
    /\ matrix_res = Pending

FibIter ==
    /\ pc = "fib"
    /\ iter_res.tag = "Pending"
    /\ iter_res' = Returned(__fib_iter(BigFrom(nth)))
    /\ UNCHANGED <<program, term, context, stdout, result, pc, nth, matrix_res>>

FibMatrix ==
    /\ pc = "fib"
    /\ matrix_res.tag = "Pending"
    /\ matrix_res' = __fib_matrix(BigFrom(nth), 0)
    /\ UNCHANGED <<program, term, context, stdout, result, pc, nth, iter_res>>

NextFib == FibIter \/ FibMatrix

SpecFib == InitFib /\ [][NextFib]_vars
(***************************************************************************)
(* The properties.                                                         *)
(***************************************************************************)
Family(f) == program.family = f

\* eval has returned to main.
Returns == pc \in {"evaluated", "exit"}

Yields(v) == Returns /\ result.tag = "Ok" /\ OutputEq(result.v, v)

YieldsInt(n) == Yields(OutputInt(BigFrom(n)))

Fails(message, i) ==
    Returns /\ result.tag = "Err" /\ result.v = Error(message, L(i))

\* A term evaluated on its own, in the context main makes.
Alone(t) == eval(t, Context(<<>>, EmptyMap), <<>>, 1)

\* n! and the Fibonacci numbers, by their recurrences.
RECURSIVE Factorial(_)
Factorial(n) == IF n = 0 THEN 1 ELSE n * Factorial(n - 1)

RECURSIVE Fibonacci(_)
Fibonacci(n) == IF n < 2 THEN n ELSE Fibonacci(n - 1) + Fibonacci(n - 2)

\* <<F(n), F(n + 1)>> in unbounded precision, by the doubling identities
\* F(2k) = F(k) * (2 * F(k + 1) - F(k)) and F(2k + 1) = F(k)^2 + F(k + 1)^2.
FibDouble(a, b, odd) ==
    IF odd
    THEN <<BigAdd(BigMul(a, a), BigMul(b, b)),
           BigAdd(BigMul(a, BigSub(BigMul(Big2, b), a)),
                  BigAdd(BigMul(a, a), BigMul(b, b)))>>
    ELSE <<BigMul(a, BigSub(BigMul(Big2, b), a)),
           BigAdd(BigMul(a, a), BigMul(b, b))>>

RECURSIVE FibPair(_)
FibPair(n) ==
    IF n = 0 THEN <<Big0, Big1>>
    ELSE LET p == FibPair(n \div 2)
         IN  FibDouble(p[1], p[2], n % 2 = 1)

FibRef(n) == FibPair(n)[1]

\* FibRef is the Fibonacci sequence at n: F(0) = 0, F(1) = 1 and
\* F(n) = F(n - 1) + F(n - 2).
IsFibonacciAt(n) ==
    /\ n = 0 => FibRef(n) = Big0
    /\ n = 1 => FibRef(n) = Big1
    /\ n >= 2 => FibRef(n) = BigAdd(FibRef(n - 1), FibRef(n - 2))
    /\ n <= MaxSmallN => FibRef(n) = BigFrom(Fibonacci(n))

\* C1: a call evaluates the closure's body in a scope whose parent is the
\* closure's defining environment: in let x = a; let f = fn () => x;
\* let g = fn (x) => f(); g(b) the x of f is the x bound where f was defined,
\* so the program yields a, whatever b the caller g binds x to.
C1_LexicalScoping ==
    (Family("Lexical") /\ ~(pc = "ready")) => YieldsInt(program.args[1])

\* C2: a function returned from another function still resolves its free
\* variables after the outer call has returned: let mk = fn (x) => fn (y) =>
\* x + y; let add = mk(a); add(b) yields a + b and no "not declared" error.
C2_EscapingClosure ==
    (Family("Escaping") /\ ~(pc = "ready"))
        => YieldsInt(program.args[1] + program.args[2])

\* What the recursive function called name computes at n.
Recursive(name, n) == IF name = "fact" THEN Factorial(n) ELSE Fibonacci(n)

\* C3: a Let-bound function that calls itself by name (factorial, a guest
\* Fibonacci) yields the mathematically correct result for every small n,
\* wherever it is called: directly under its Let, or after it was returned
\* from the function whose body bound it.
C3_SelfRecursion ==
    (Family("Recursion") /\ ~(pc = "ready"))
        => YieldsInt(Recursive(program.args[1], program.args[3]))

\* The calls made directly under the Let yield the correct result.
DirectRecursion ==
    (Family("Recursion") /\ ~(pc = "ready") /\ program.args[2] = "direct")
        => YieldsInt(Recursive(program.args[1], program.args[3]))

\* C4: a call of the bare name fib on one argument that evaluates to an Int
\* n >= 0 yields Int F(n), below the threshold and from it on, and never
\* resolves the name fib: the result is the same and nothing is printed
\* whether fib is unbound, bound to a printing function or to a non-function.
C4_FastPath ==
    (Family("Fib") /\ ~(pc = "ready"))
        => Yields(OutputInt(FibRef(program.args[3]))) /\ stdout = <<>>

C4_Witness ==
    /\ Family("Fib")
    /\ program.args[1] = "function"
    /\ program.args[3] >= FibThreshold
    /\ pc = "exit"
    /\ result.tag = "Ok"

\* C5 as stated: for every n >= 0 both native routines return, and return
\* F(n).
C5_AgreeFromZero ==
    /\ iter_res.tag # "Pending"
          => iter_res.tag = "Returned" /\ iter_res.v = FibRef(nth)
    /\ matrix_res.tag # "Pending"
          => matrix_res.tag = "Returned" /\ matrix_res.v = FibRef(nth)

\* C5: for every n >= 1 the iterative routine and the matrix-power routine
\* both return, and return the same value F(n), on either side of the
\* threshold; at n = 0 the iterative routine returns F(0) = 0 and the
\* matrix-power routine never returns: it exhausts the host stack.
C5_AgreeFromOne ==
    /\ IsFibonacciAt(nth)
    /\ iter_res.tag # "Pending"
          => iter_res.tag = "Returned" /\ iter_res.v = FibRef(nth)
    /\ (matrix_res.tag # "Pending" /\ nth >= 1)
          => matrix_res.tag = "Returned" /\ matrix_res.v = FibRef(nth)
    /\ (matrix_res.tag # "Pending" /\ nth = 0)
          => matrix_res.tag = "Aborted" /\ matrix_res.v = "stack overflow"

C5_Witness ==
    /\ nth >= FibThreshold
    /\ iter_res.tag = "Returned"
    /\ matrix_res.tag = "Returned"
    /\ iter_res.v = matrix_res.v

\* The operands of a Binary, Noisy or Print program, each evaluated on its own.
Lhs == Alone(Operand(program.args[2], 10))

Rhs == Alone(Operand(program.args[3], 20))

\* C6: in a Binary term the lhs is evaluated, then the rhs, whatever the
\* operator and whatever the lhs yielded: what the lhs prints comes before
\* what the rhs prints, the rhs prints even under false && ... and
\* true || ..., and an error of the rhs is the error of the Binary.
C6_BothSidesInOrder ==
    (Family("Noisy") /\ pc = "evaluated" /\ Lhs.res.tag = "Ok")
        => /\ stdout = <<"lhs">> \o Lhs.out \o <<"rhs">> \o Rhs.out
           /\ Rhs.res.tag = "Err" => result.tag = "Err" /\ result.v = Rhs.res.v

C6_Witness ==
    /\ Family("Noisy")
    /\ program.args[1] = "And"
    /\ TermEq(term.lhs.next, BoolAt(FALSE, 10))
    /\ pc = "evaluated"
    /\ stdout = <<"lhs", "rhs">>
    /\ result.tag = "Err"
    /\ result.v.message = "Cannot access first of a non tuple argument"

IsBool(v, b) == v.tag = "Bool" /\ v.v = b

\* C7: lhs && rhs is false when the lhs is false and else the value of the
\* rhs as it is; lhs || rhs is true when the lhs is true and else the value
\* of the rhs as it is; for operands of every variant, and never an error.
C7_AndOr ==
    (/\ Family("Binary")
     /\ program.args[1] \in {"And", "Or"}
     /\ ~(pc = "ready")
     /\ Lhs.res.tag = "Ok"
     /\ Rhs.res.tag = "Ok")
        => IF IsBool(Lhs.res.v, program.args[1] = "Or")
           THEN Yields(OutputBool(program.args[1] = "Or"))
           ELSE Yields(Rhs.res.v)

C7_Witness ==
    /\ Family("Binary")
    /\ program.args[1] = "And"
    /\ TermEq(term.lhs, IntAt(5, 10))
    /\ TermEq(term.rhs, StrAt("ab", 20))
    /\ pc = "exit"
    /\ Yields(OutputStr("ab"))

\* The quotient of a by b > 0 truncated towards zero, and the remainder it
\* leaves, which has the sign of a.
Quotient(a, b) == IF a >= 0 THEN a \div b ELSE 0 - ((0 - a) \div b)

Remainder(a, b) == a - b * Quotient(a, b)

\* C8: a / b and a % b of two Ints are the quotient and the remainder of a
\* by b when b > 0, and the error "Arithmetic error, dividing by zero" at the
\* Binary when b <= 0; when an operand is no Int they are the error "Cannot
\* perform div operation", resp. "Cannot perform rem operation".
C8_DivRem ==
    /\ (Family("Div") /\ ~(pc = "ready"))
          => IF program.args[3] > 0
             THEN YieldsInt(IF program.args[1] = "Div"
                            THEN Quotient(program.args[2], program.args[3])
                            ELSE Remainder(program.args[2], program.args[3]))
             ELSE Fails("Arithmetic error, dividing by zero", 1)
    /\ (/\ Family("Binary")
        /\ program.args[1] \in {"Div", "Rem"}
        /\ ~(pc = "ready")
        /\ Lhs.res.tag = "Ok"
        /\ Rhs.res.tag = "Ok"
        /\ ~BothInt(Lhs.res.v, Rhs.res.v))
          => Fails(IF program.args[1] = "Div" THEN "Cannot perform div operation"
                   ELSE "Cannot perform rem operation", 1)

C8_Witness ==
    /\ Family("Div")
    /\ program.args[1] = "Div"
    /\ program.args[2] < 0
    /\ program.args[3] = 2
    /\ pc = "exit"
    /\ YieldsInt(-3)

\* The fast path as the claim C9 describes it: the callee is the bare name
\* fib and there is one argument, which evaluates to an Int.
FastPathApplies ==
    program.args[1] = "fib" /\ program.args[3] = 1 /\ program.args[4] = "int"

Callee == Callees(20)[program.args[2]]

\* C9: a call the fast path does not apply to fails with "Calling a not
\* callable" when the callee is no Closure, and with "Arguments declaration
\* differs parameters declaration" when it is a Closure of another number of
\* parameters than there are arguments; the error is at the Call and the
\* body of the closure is not evaluated.
C9_CallErrors ==
    (Family("Call") /\ ~(pc = "ready") /\ ~FastPathApplies)
        => IF Callee.kind # "Function"
           THEN Fails("Calling a not callable", 2)
           ELSE Len(Callee.parameters) # program.args[3]
                   => /\ Fails("Arguments declaration differs parameters declaration", 2)
                      /\ \A i \in 1..Len(stdout) : stdout[i] # "body"

\* The Display form of the claim C10: a Tuple is rendered with its
\* components rendered the same way, a Closure as a placeholder, Void as the
\* empty text.
RECURSIVE DisplayForm(_)
DisplayForm(o) ==
    CASE o.tag = "Bool"    -> BoolToStr(o.v)
      [] o.tag = "Int"     -> BigToStr(o.v)
      [] o.tag = "Str"     -> o.v
      [] o.tag = "Tuple"   ->
            "(" \o DisplayForm(o.v[1]) \o ", " \o DisplayForm(o.v[2]) \o ")"
      [] o.tag = "Closure" -> "<#closure>"
      [] o.tag = "Void"    -> ""

Printed == Alone(Operand(program.args[1], 10))

\* C10: print of a value of any variant writes one line, the Display form of
\* the value, after what the evaluation of the operand wrote, and yields
\* Void.
C10_PrintOneLine ==
    (Family("Print") /\ pc = "evaluated" /\ Printed.res.tag = "Ok")
        => /\ stdout = Printed.out \o <<DisplayForm(Printed.res.v)>>
           /\ Yields(OutputVoid)

\* C11: once a sub-term has failed nothing more is evaluated: wherever the
\* failing term stands, the result of the program is the error of that term,
\* with its message and at its location, the lines printed before it are the
\* output, and nothing that comes after it is printed; main then reports
\* that error.
C11_FailFast ==
    (Family("Failing") /\ ~(pc = "ready"))
        => /\ Fails(FailingMessages[program.args[2]], 50)
           /\ pc = "evaluated" => stdout = <<"before">>
           /\ pc = "exit"
                 => stdout = <<"before", ErrorLine(Error(FailingMessages[program.args[2]],
                                                         L(50)))>>

C11_Witness ==
    /\ Family("Failing")
    /\ program.args[1] = 9
    /\ program.args[2] = 3
    /\ pc = "exit"
    /\ Len(stdout) = 2
    /\ result.tag = "Err"
    /\ result.v.start = 50

\* C12: whatever the shape of the program, an evaluation that ends returns
\* an Ok or an Err to main; the process never aborts on a host-level fault
\* other than the exhaustion of the stack.
C12_NoHostFault ==
    result.tag = "Aborted" => result.v = "stack overflow"

\* Whether the scope chain ctx binds name to the closure c: a Closure of the
\* same parameters and body.
BindsClosure(ctx, name, c) ==
    /\ Len(lookup(ctx, name)) = 1
    /\ lookup(ctx, name)[1].tag = "Closure"
    /\ lookup(ctx, name)[1].v.args = c.args
    /\ TermEq(lookup(ctx, name)[1].v.body, c.body)

\* C13: after let name = fn ...; name(n) has bound and invoked the function,
\* the environment captured in the Closure bound to name itself binds name
\* to that closure: the insertion of the Let is visible through it.
C13_SelfReferenceVisible ==
    (Family("Recursion") /\ program.args[2] = "direct" /\ Returns)
        => /\ BindsClosure(context, program.args[1], context.inner[program.args[1]].v)
           /\ BindsClosure(context.inner[program.args[1]].v.context, program.args[1],
                           context.inner[program.args[1]].v)

\* Whether the call fib(n) of the program returned the result of a native
\* routine: an Ok with nothing printed.  Without the fast path the call
\* fails when fib is unbound or bound to a value that is no function, and
\* prints a line when fib is bound to the printing function.
NativeResult == Returns /\ result.tag = "Ok" /\ result.v.tag = "Int" /\ stdout = <<>>

\* C14: the native Fibonacci routines are never run on a negative Int: a
\* call fib(n) whose argument evaluates to a negative Int is not answered
\* by __fib_iter or __fib_matrix.
C14_NativeNonNegative == (Family("Negative") /\ Returns) => ~NativeResult

\* Whether s is a prefix of t.
IsPrefix(s, t) == Len(s) <= Len(t) /\ s = SubSeq(t, 1, Len(s))

\* The lines of a call of m printing arguments whose body is reached.
ArgLines(m) == [k \in 1..m |-> ArgLine(k)]

\* C15: in a call each argument is evaluated at most once, from left to
\* right, and exactly once when the body of the closure is reached: the
\* lines the arguments print appear once each, in order, before the line of
\* the body, whether the callee is named f or fib and whether the first
\* argument is an Int or not.
C15_ArgumentsOnce ==
    (Family("Arguments") /\ Returns)
        => /\ IsPrefix(stdout, ArgLines(program.args[2]) \o <<"body">>)
           /\ (Len(stdout) > 0 /\ stdout[Len(stdout)] = "body")
                 => stdout = ArgLines(program.args[2]) \o <<"body">>

\* C16: the bindings made while the body of a closure is evaluated, of its
\* parameter and of its Lets, go into the scope of the call only: once the
\* call has returned, with a value or with an error, the scope of the caller
\* holds the bindings it held before (x with its value, f), those the Lets
\* of the callee expression and of the argument made (g, a), and no other.
C16_CallFrame ==
    (Family("Frame") /\ Returns)
        => /\ Len(context.outter) = 0
           /\ DOMAIN context.inner = {"x", "f", "g", "a"}
           /\ OutputEq(context.inner["x"], OutputInt(BigFrom(program.args[3])))
           /\ OutputEq(context.inner["a"], OutputInt(BigFrom(5)))
           /\ context.inner["f"].tag = "Closure"
           /\ context.inner["g"].tag = "Closure"
           /\ program.args[2] = "value" => YieldsInt(program.args[3] + 10)
           /\ program.args[2] = "error" => Fails("Variable missing is not declared", 50)

C16_Witness ==
    /\ Family("Frame")
    /\ program.args[1] = "x"
    /\ program.args[2] = "error"
    /\ pc = "exit"
    /\ result.tag = "Err"
    /\ "a" \in DOMAIN context.inner
====
